---- MODULE Spec2Model ----
(***************************************************************************)
(* Model of pscreen's packaging script, setup.py.                          *)
(*                                                                         *)
(* The script is a module body executed top to bottom: three import        *)
(* statements, three function definitions (test_screen, get_version,       *)
(* get_files) and one call of distutils' setup() whose keyword arguments   *)
(* call get_version() and get_files('profiles').                           *)
(*                                                                         *)
(* Text is modelled as sequences of tokens.  In a path the token "/" is    *)
(* the separator and every other token is one name component; in the PATH  *)
(* value the token ":" is the delimiter; in the output of git the tokens   *)
(* are single characters.                                                  *)
(***************************************************************************)
EXTENDS Integers, Sequences, FiniteSets, TLC

VARIABLES
  pc,         \* position in the module body
  globals,    \* names bound in the module namespace
  py,         \* the interpreter `python` resolves to: its version and its distutils
  environ,    \* os.environ, restricted to PATH
  fsScreen,   \* absolute locations (component sequences) of files named screen
  cwd,        \* current working directory of the process
  scriptFile, \* __file__
  last,       \* the most recent function call: its inputs and its outcome
  version,    \* value of the keyword argument version= once evaluated
  files,      \* value of get_files('profiles') once evaluated
  setupCalls, \* keyword arguments of every setup(...) call made, in order
  exit,       \* <<>> while running, <<status>> once the process has ended
  stderr,     \* what was written to the error stream
  trace       \* names of the functions called so far, in call order

vars == <<pc, globals, py, environ, fsScreen, cwd, scriptFile, last, version,
          files, setupCalls, exit, stderr, trace>>

----------------------------------------------------------------------------
(* Bounds *)

MaxPathLen == 3     \* tokens in the PATH value
MaxOutLen  == 2     \* characters in the output of git describe
MaxEntries == 2     \* names that may occur in the profiles directory

----------------------------------------------------------------------------
(* Generic helpers *)

Last(s) == s[Len(s)]

SeqsUpTo(S, n) == UNION {[1..k -> S] : k \in 0..n}

Perms(S) == {s \in [1..Cardinality(S) -> S] : \A i, j \in 1..Len(s) : s[i] = s[j] => i = j}

Range(s) == {s[i] : i \in 1..Len(s)}

----------------------------------------------------------------------------
(* posixpath *)

IsAbs(p) == p # <<>> /\ p[1] = "/"

\* os.path.join(a, b)
Join(a, b) ==
  IF IsAbs(b) THEN b
  ELSE IF a = <<>> \/ Last(a) = "/" THEN a \o b
  ELSE a \o <<"/">> \o b

Components(p) == SelectSeq(p, LAMBDA t : t # "/")

\* the absolute location a path names for a process whose working directory is c
Resolve(c, p) == IF IsAbs(p) THEN Components(p) ELSE Components(c) \o Components(p)

RECURSIVE ToPath(_)
ToPath(comps) ==
  IF comps = <<>> THEN <<>> ELSE <<"/", Head(comps)>> \o ToPath(Tail(comps))

\* os.path.realpath(p): absolute and normalised (the model has no symlinked script)
Realpath(c, p) == IF Resolve(c, p) = <<>> THEN <<"/">> ELSE ToPath(Resolve(c, p))

\* os.path.dirname(p) of a normalised absolute path
Dirname(p) ==
  IF Len(p) <= 2 THEN <<"/">> ELSE SubSeq(p, 1, Len(p) - 2)

----------------------------------------------------------------------------
(* The module namespace *)

Builtins == {"str"}

\* the interpreters the script may be run by: <<major, minor>> and where
\* `import distutils` finds the package.  The standard library holds it up to
\* 3.11; an installed setuptools provides it on any Python 3
PyVersions ==
  {[version |-> <<2, 7>>, distutils |-> "stdlib"],
   [version |-> <<3, 11>>, distutils |-> "stdlib"],
   [version |-> <<3, 11>>, distutils |-> "setuptools"],
   [version |-> <<3, 12>>, distutils |-> "setuptools"],
   [version |-> <<3, 12>>, distutils |-> "none"]}

Major(v) == v.version[1]

\* whether line 4 finds distutils
HasDistutils(v) == v.distutils # "none"

\* what importing distutils may write to the error stream: nothing, or, from
\* a Python 3 standard library that still has it, its DeprecationWarning
ImportWarnings(v) ==
  IF Major(v) = 3 /\ v.distutils = "stdlib" THEN {<<>>, <<"warning">>} ELSE {<<>>}

ImportedNames == {"os", "setup", "Popen", "PIPE"}

DefinedNames == {"test_screen", "get_version", "get_files"}

Bound(g, name) == name \in g \/ name \in Builtins

----------------------------------------------------------------------------
(* test_screen *)

RECURSIVE Split(_)
\* re.split(':', s): the pieces between the delimiters, empty pieces kept
Split(s) ==
  IF \A i \in 1..Len(s) : s[i] # ":" THEN <<s>>
  ELSE LET k == CHOOSE i \in 1..Len(s) : s[i] = ":" /\ \A j \in 1..(i - 1) : s[j] # ":"
       IN  <<SubSeq(s, 1, k - 1)>> \o Split(SubSeq(s, k + 1, Len(s)))

\* os.path.exists(os.path.join(path, 'screen'))
ScreenExists(c, screens, path) == Resolve(c, Join(path, <<"screen">>)) \in screens

Diagnostic == "GNU screen not found.\n"

NameError(name, probes) ==
  [raised |-> "NameError", name |-> name, code |-> 1, probes |-> probes, err |-> <<"Traceback">>]

test_screen(g, env, c, screens) ==
  IF ~Bound(g, "re") THEN NameError("re", <<>>)
  ELSE IF ~Bound(g, "os") THEN NameError("os", <<>>)
  ELSE IF ~env.has
    THEN [raised |-> "KeyError", name |-> "PATH", code |-> 1, probes |-> <<>>,
          err |-> <<"Traceback">>]
  ELSE
    LET dirs  == Split(env.PATH)
        hits  == {i \in 1..Len(dirs) : ScreenExists(c, screens, dirs[i])}
        first == CHOOSE i \in hits : \A j \in hits : i <= j
        probe(n) == [i \in 1..n |-> Join(dirs[i], <<"screen">>)]
    IN  IF hits # {}
          THEN [raised |-> "no", name |-> "", code |-> 0, probes |-> probe(first), err |-> <<>>]
        ELSE IF ~Bound(g, "sys") THEN NameError("sys", probe(Len(dirs)))
        ELSE [raised |-> "SystemExit", name |-> "", code |-> 1, probes |-> probe(Len(dirs)),
              err |-> <<Diagnostic>>]

----------------------------------------------------------------------------
(* get_version *)

\* the vertical tab, which TLA+ has no escape for
VT == ""

\* the characters bytes.strip() removes
Whitespace == {" ", "\t", "\n", "\r", VT, "\f"}

RECURSIVE LStrip(_)
LStrip(b) == IF b # <<>> /\ Head(b) \in Whitespace THEN LStrip(Tail(b)) ELSE b

RECURSIVE RStrip(_)
RStrip(b) ==
  IF b # <<>> /\ Last(b) \in Whitespace THEN RStrip(SubSeq(b, 1, Len(b) - 1)) ELSE b

\* bytes.strip()
Strip(b) == RStrip(LStrip(b))

\* the quote repr() delimits a byte string with: the double quote when the
\* string holds a single quote and no double quote, the single quote otherwise
Quote(b) == IF "'" \in Range(b) /\ "\"" \notin Range(b) THEN "\"" ELSE "'"

RECURSIVE EscapeWith(_, _)
\* repr() of the characters of a byte string delimited by q.  The characters
\* of the model are printable ASCII and the six white-space characters; any
\* other byte would be written \xNN like the vertical tab and the form feed
EscapeWith(b, q) ==
  IF b = <<>> THEN <<>>
  ELSE (CASE Head(b) = "\n" -> <<"\\", "n">>
          [] Head(b) = "\t" -> <<"\\", "t">>
          [] Head(b) = "\r" -> <<"\\", "r">>
          [] Head(b) = "\\" -> <<"\\", "\\">>
          [] Head(b) = VT -> <<"\\", "x", "0", "b">>
          [] Head(b) = "\f" -> <<"\\", "x", "0", "c">>
          [] Head(b) = q -> <<"\\", q>>
          [] OTHER -> <<Head(b)>>) \o EscapeWith(Tail(b), q)

\* the body of repr() of a byte string
Escape(b) == EscapeWith(b, Quote(b))

\* str(b) of what a pipe's read() returns: the same string on Python 2, where
\* it is a str already; the repr of the bytes object on Python 3
Str(p, b) == IF p = 2 THEN b ELSE <<"b", Quote(b)>> \o Escape(b) \o <<Quote(b)>>

\* p is the interpreter's major version
get_version(g, p, git) ==
  IF ~Bound(g, "Popen") THEN [raised |-> "NameError", value |-> <<>>]
  ELSE IF ~Bound(g, "PIPE") THEN [raised |-> "NameError", value |-> <<>>]
  ELSE IF ~git.installed THEN [raised |-> "OSError", value |-> <<>>]
  ELSE [raised |-> "no", value |-> Str(p, Strip(git.out))]

----------------------------------------------------------------------------
(* get_files *)

NamePool == <<"a", "b", "c", "d">>

Names == {NamePool[i] : i \in 1..MaxEntries}

Kinds == {"file", "dir", "linkfile", "linkdir", "broken"}

MissingDir == [exists |-> FALSE, kind |-> [n \in Names |-> "absent"]]

DirContents ==
  {MissingDir} \cup {[exists |-> TRUE, kind |-> k] : k \in [Names -> Kinds \cup {"absent"}]}

Present(d) == {n \in Names : d.kind[n] # "absent"}

\* what the working directory holds under the name profiles when the script is
\* run from somewhere else
Decoy == [exists |-> TRUE, kind |-> [n \in Names |-> IF n = NamePool[1] THEN "dir" ELSE "file"]]

\* the directory at an absolute location, given the contents of /src/profiles
DirAt(profiles, comps) ==
  IF comps = <<"src", "profiles">> THEN profiles
  ELSE IF comps = <<"tmp", "profiles">> THEN Decoy
  ELSE MissingDir

\* os.path.isfile(path): a regular file, symbolic links followed
IsFile(profiles, c, path) ==
  LET comps == Resolve(c, path)
  IN  /\ comps # <<>>
      /\ LET d == DirAt(profiles, SubSeq(comps, 1, Len(comps) - 1))
         IN  /\ d.exists
             /\ Last(comps) \in Names
             /\ d.kind[Last(comps)] \in {"file", "linkfile"}

RECURSIVE Collect(_, _, _, _, _)
\* the loop of get_files over the listing still to be visited
Collect(profiles, c, prof_dir, dirname, listing) ==
  IF listing = <<>> THEN <<>>
  ELSE (IF IsFile(profiles, c, Join(prof_dir, <<Head(listing)>>))
          THEN <<Join(dirname, <<Head(listing)>>)>> ELSE <<>>)
       \o Collect(profiles, c, prof_dir, dirname, Tail(listing))

\* a get_files that lists dirname as given, that is relative to the working directory
get_files_cwd(g, c, f, dirname, profiles, listing) ==
  IF ~DirAt(profiles, Resolve(c, dirname)).exists
    THEN [raised |-> "OSError", value |-> <<>>]
    ELSE [raised |-> "no", value |-> Collect(profiles, c, dirname, dirname, listing)]

\* a get_files that treats a directory it cannot list as an empty one
get_files_swallow(g, c, f, dirname, profiles, listing) ==
  LET prof_dir == Join(Dirname(Realpath(c, f)), dirname)
  IN  IF ~DirAt(profiles, Resolve(c, prof_dir)).exists
        THEN [raised |-> "no", value |-> <<>>]
        ELSE [raised |-> "no", value |-> Collect(profiles, c, prof_dir, dirname, listing)]

\* listing is the order in which os.listdir returns the entries of prof_dir
get_files(g, c, f, dirname, profiles, listing) ==
  IF ~Bound(g, "os") THEN [raised |-> "NameError", value |-> <<>>]
  ELSE
    LET src_dir  == Dirname(Realpath(c, f))
        prof_dir == Join(src_dir, dirname)
    IN  IF ~DirAt(profiles, Resolve(c, prof_dir)).exists
          THEN [raised |-> "OSError", value |-> <<>>]
          ELSE [raised |-> "no", value |-> Collect(profiles, c, prof_dir, dirname, listing)]

\* the listings os.listdir may return for the directory get_files reads
Listings(c, f, dirname, profiles) ==
  Perms(Present(DirAt(profiles, Resolve(c, Join(Dirname(Realpath(c, f)), dirname)))))

----------------------------------------------------------------------------
(* setup(...) *)

Destination == "share/pscreen/profiles"

\* a setup call without the version keyword, as in the script's first revision
SetupArgsNoVersion(v, f) ==
  [name |-> "pscreen", version |-> <<>>, scripts |-> <<"utils/pscreen">>,
   data_files |-> <<[dest |-> Destination, files |-> f]>>]

\* the keyword arguments setup receives
SetupArgs(v, f) ==
  [name |-> "pscreen", version |-> v, scripts |-> <<"utils/pscreen">>,
   data_files |-> <<[dest |-> Destination, files |-> f]>>]

----------------------------------------------------------------------------
(* Inputs *)

PathTokens == {"/", "u", ":"}

Environs ==
  {[has |-> FALSE, PATH |-> <<>>]}
    \cup {[has |-> TRUE, PATH |-> p] : p \in SeqsUpTo(PathTokens, MaxPathLen)}

ScreenSites == {<<"screen">>, <<"u", "screen">>, <<"src", "screen">>, <<"tmp", "screen">>}

\* `python setup.py` in the source directory, or `python /src/setup.py`
\* elsewhere: the working directory and the script path as given
Invocations ==
  {[cwd |-> <<"/", "src">>, arg |-> <<"setup.py">>],
   [cwd |-> <<"/", "tmp">>, arg |-> <<"/", "src", "/", "setup.py">>]}

\* __file__ of the script: the path as given, which the interpreter makes
\* absolute from Python 3.9 on
ScriptFile(v, c, arg) ==
  IF v.version[1] = 3 /\ v.version[2] >= 9 THEN Realpath(c, arg) ELSE arg

\* the environments a packaging run is started in: PATH unset; PATH=/u with
\* and without a file /u/screen
RunStarts ==
  {[environ |-> [has |-> FALSE, PATH |-> <<>>], screens |-> {}],
   [environ |-> [has |-> TRUE, PATH |-> <<"/", "u">>], screens |-> {}],
   [environ |-> [has |-> TRUE, PATH |-> <<"/", "u">>], screens |-> {<<"u", "screen">>}]}

OutChars == {"v", "\n"}

\* git describe --tags: git cannot be started; it fails, prints nothing on its
\* standard output and its message on the error stream, which Popen leaves
\* the process's own; it succeeds and prints a description, with or without
\* a warning on the error stream
GitOutcomes ==
  {[installed |-> FALSE, exit |-> 127, out |-> <<>>, err |-> <<>>],
   [installed |-> TRUE, exit |-> 128, out |-> <<>>, err |-> <<"fatal">>]}
    \cup {[installed |-> TRUE, exit |-> 0, out |-> o, err |-> e] :
            e \in {<<>>, <<"warning">>},
            o \in {x \in SeqsUpTo(OutChars, MaxOutLen) : \E i \in 1..Len(x) : x[i] \notin Whitespace}}

----------------------------------------------------------------------------
(* The packaging run: the module body *)

Init ==
  /\ pc = "import"
  /\ globals = {}
  /\ py \in PyVersions
  /\ \E st \in RunStarts : environ = st.environ /\ fsScreen = st.screens
  /\ \E inv \in Invocations :
       cwd = inv.cwd /\ scriptFile = ScriptFile(py, inv.cwd, inv.arg)
  /\ last = [fn |-> "none"]
  /\ version = <<>>
  /\ files = <<>>
  /\ setupCalls = <<>>
  /\ exit = <<>>
  /\ stderr = <<>>
  /\ trace = <<>>

\* lines 3-5; line 4 raises ModuleNotFoundError where distutils is gone, and
\* the process ends there with only os bound
ImportStatements ==
  /\ pc = "import"
  /\ IF HasDistutils(py)
       THEN /\ globals' = globals \cup ImportedNames
            /\ pc' = "def"
            /\ \E w \in ImportWarnings(py) : stderr' = stderr \o w
            /\ UNCHANGED exit
       ELSE /\ globals' = globals \cup {"os"}
            /\ pc' = "done"
            /\ exit' = <<1>>
            /\ stderr' = Append(stderr, "Traceback")
  /\ UNCHANGED <<py, environ, fsScreen, cwd, scriptFile, last, version, files,
                 setupCalls, trace>>

\* lines 7, 14 and 17: the def statements bind the names and call nothing
DefStatements ==
  /\ pc = "def"
  /\ globals' = globals \cup DefinedNames
  /\ pc' = "version"
  /\ UNCHANGED <<py, environ, fsScreen, cwd, scriptFile, last, version, files,
                 setupCalls, exit, stderr, trace>>

\* line 31: version=get_version()
EvalVersion ==
  /\ pc = "version"
  /\ \E git \in GitOutcomes :
       LET r == get_version(globals, Major(py), git)
       IN  /\ last' = [fn |-> "get_version", git |-> git, raised |-> r.raised, value |-> r.value]
           /\ trace' = Append(trace, "get_version")
           /\ IF r.raised = "no"
                THEN /\ version' = r.value
                     /\ pc' = "files"
                     /\ stderr' = stderr \o git.err
                     /\ UNCHANGED exit
                ELSE /\ pc' = "done"
                     /\ exit' = <<1>>
                     /\ stderr' = Append(stderr, "Traceback")
                     /\ UNCHANGED version
  /\ UNCHANGED <<globals, py, environ, fsScreen, cwd, scriptFile, files, setupCalls>>

\* line 37: data_files=[('share/pscreen/profiles',get_files('profiles'))]
EvalDataFiles ==
  /\ pc = "files"
  /\ \E profiles \in DirContents :
       \E listing \in Listings(cwd, scriptFile, <<"profiles">>, profiles) :
         LET r == get_files(globals, cwd, scriptFile, <<"profiles">>, profiles, listing)
         IN  /\ last' = [fn |-> "get_files", profiles |-> profiles,
                         raised |-> r.raised, value |-> r.value]
             /\ trace' = Append(trace, "get_files")
             /\ IF r.raised = "no"
                  THEN /\ files' = r.value
                       /\ pc' = "setup"
                       /\ UNCHANGED <<exit, stderr>>
                  ELSE /\ pc' = "done"
                       /\ exit' = <<1>>
                       /\ stderr' = Append(stderr, "Traceback")
                       /\ UNCHANGED files
  /\ UNCHANGED <<globals, py, environ, fsScreen, cwd, scriptFile, version, setupCalls>>

\* what setup(...) itself does with the command line: it succeeds; it writes
\* its error (no command, a missing script) to the error stream and ends the
\* process with status 1; or it raises (a version it rejects) and the
\* traceback ends the process with status 1.  Either way it may first warn
SetupOutcomes ==
  {[status |-> 0, warned |-> w, said |-> <<>>] : w \in BOOLEAN}
    \cup {[status |-> 1, warned |-> w, said |-> <<e>>] :
            w \in BOOLEAN, e \in {"error", "Traceback"}}

\* lines 29-38: the call itself, once every keyword argument has a value;
\* distutils then runs the command line's commands and the process ends
CallSetup ==
  /\ pc = "setup"
  /\ setupCalls' = Append(setupCalls, SetupArgs(version, files))
  /\ trace' = Append(trace, "setup")
  /\ pc' = "done"
  /\ \E o \in SetupOutcomes :
       /\ exit' = <<o.status>>
       /\ stderr' = stderr \o (IF o.warned THEN <<"warning">> ELSE <<>>) \o o.said
  /\ UNCHANGED <<globals, py, environ, fsScreen, cwd, scriptFile, last, version, files>>

Next ==
  \/ ImportStatements
  \/ DefStatements
  \/ EvalVersion
  \/ EvalDataFiles
  \/ CallSetup

Spec == Init /\ [][Next]_vars

----------------------------------------------------------------------------
(* test_screen applied: a call of the function in the namespace the module  *)
(* body builds, for every PATH value and every placement of screen files    *)

InitTestScreen ==
  /\ pc = "loaded"
  /\ globals = ImportedNames \cup DefinedNames
  /\ py \in {v \in PyVersions : HasDistutils(v)}
  /\ environ \in Environs
  /\ fsScreen \in SUBSET ScreenSites
  /\ \E inv \in Invocations :
       cwd = inv.cwd /\ scriptFile = ScriptFile(py, inv.cwd, inv.arg)
  /\ last = [fn |-> "none"]
  /\ version = <<>>
  /\ files = <<>>
  /\ setupCalls = <<>>
  /\ exit = <<>>
  /\ stderr \in ImportWarnings(py)
  /\ trace = <<>>

\* lines 7-12
CallTestScreen ==
  /\ pc = "loaded"
  /\ LET r == test_screen(globals, environ, cwd, fsScreen)
     IN  /\ last' = [fn |-> "test_screen", raised |-> r.raised, name |-> r.name,
                     code |-> r.code, probes |-> r.probes, err |-> r.err]
         /\ stderr' = stderr \o r.err
         /\ pc' = IF r.raised = "no" THEN "returned" ELSE "done"
         /\ exit' = IF r.raised = "no" THEN <<>> ELSE <<r.code>>
  /\ trace' = Append(trace, "test_screen")
  /\ UNCHANGED <<globals, py, environ, fsScreen, cwd, scriptFile, version, files, setupCalls>>

NextTestScreen == CallTestScreen

SpecTestScreen == InitTestScreen /\ [][NextTestScreen]_vars

----------------------------------------------------------------------------
(* Properties *)

\* no directory of the search path holds a file named screen
NoScreenOnPath ==
  \/ ~environ.has
  \/ \A d \in Range(Split(environ.PATH)) : ~ScreenExists(cwd, fsScreen, d)

Emitted == setupCalls # <<>>

\* C1: when no directory of the search path holds a file named screen, the
\* run never reaches setup(...): no package metadata is produced.
C1_NoEmissionWithoutScreen == NoScreenOnPath => ~Emitted

\* C2: when no directory of the search path holds a file named screen,
\* test_screen writes the diagnostic to the error stream and ends the process
\* with exit status 1.
C2_NotFoundExitsOne ==
  (last.fn = "test_screen" /\ NoScreenOnPath)
    => /\ last.raised = "SystemExit"
       /\ last.err = <<Diagnostic>>
       /\ exit = <<1>>

\* C3: when some directory of the search path holds a file named screen,
\* test_screen returns normally: nothing on the error stream, no exit.
C3_FoundReturns ==
  (last.fn = "test_screen" /\ ~NoScreenOnPath)
    => /\ last.raised = "no"
       /\ last.err = <<>>
       /\ exit = <<>>

\* C4: when PATH is empty or not set, test_screen probes no filesystem
\* location and ends in the diagnostic and exit status 1, with no other error.
C4_EmptyPathNotFound ==
  (last.fn = "test_screen" /\ (~environ.has \/ environ.PATH = <<>>))
    => /\ last.probes = <<>>
       /\ last.raised = "SystemExit"
       /\ last.err = <<Diagnostic>>
       /\ exit = <<1>>

DescribeFailed(git) == git.installed /\ git.exit # 0

\* C5: when the describe query fails, get_version raises and the run ends
\* there; setup(...) is never called with an empty version.
C5_FailedDescribeRaises ==
  /\ (last.fn = "get_version" /\ DescribeFailed(last.git))
       => (last.raised # "no" /\ pc = "done" /\ exit # <<>> /\ exit # <<0>>)
  /\ \A i \in 1..Len(setupCalls) : Strip(setupCalls[i].version) # <<>>

\* the paths dirname/entry of the entries of directory d that are regular files
RegularPaths(dirname, d) ==
  {dirname \o <<"/", n>> : n \in {m \in Names : d.kind[m] \in {"file", "linkfile"}}}

\* C6: get_files(dirname) returns exactly one path dirname/entry for every
\* entry of the script's own dirname directory that is a regular file, none
\* for any other entry, whatever the working directory is.
C6_FilesExactlyRegular ==
  (last.fn = "get_files" /\ last.raised = "no")
    => /\ last.profiles.exists
       /\ Range(last.value) = RegularPaths(<<"profiles">>, last.profiles)
       /\ Len(last.value) = Cardinality(RegularPaths(<<"profiles">>, last.profiles))
       /\ files = last.value

C6_Witness ==
  /\ last.fn = "get_files"
  /\ last.raised = "no"
  /\ cwd = <<"/", "tmp">>
  /\ \E n, m \in Names :
       /\ last.profiles.kind[n] \in {"file", "linkfile"}
       /\ last.profiles.kind[m] \in {"dir", "linkdir"}
  /\ Len(files) = 1

\* C7: when the script's profiles directory does not exist, get_files raises
\* the error of the listing, the run ends with a non-zero status and
\* setup(...) is not called.
C7_MissingDirAborts ==
  (last.fn = "get_files" /\ ~last.profiles.exists)
    => /\ last.raised = "OSError"
       /\ pc = "done"
       /\ exit = <<1>>
       /\ ~Emitted

C7_Witness ==
  /\ last.fn = "get_files"
  /\ ~last.profiles.exists
  /\ pc = "done"
  /\ stderr = <<"Traceback">>

\* C8: when the describe query succeeds with output T, the version is T with
\* the surrounding whitespace removed: non-empty and otherwise unchanged.
C8_VersionIsTrimmedOutput ==
  (last.fn = "get_version" /\ last.git.installed /\ last.git.exit = 0)
    => /\ last.raised = "no"
       /\ version = Strip(last.git.out)
       /\ version # <<>>
       /\ Head(version) \notin Whitespace
       /\ Last(version) \notin Whitespace

\* C9: a run that ends with exit status 0 has called the tool-presence check,
\* version resolution, file discovery and setup, each once and in this order.
C9_SuccessRanAllChecks ==
  exit = <<0>> => trace = <<"test_screen", "get_version", "get_files", "setup">>

C10_Inv ==
  /\ Len(setupCalls) <= 1
  /\ (last.fn = "get_version" /\ last.raised = "no") => version = last.value
  /\ (last.fn = "get_files" /\ last.raised = "no") => files = last.value
  /\ Emitted =>
       /\ trace = <<"get_version", "get_files", "setup">>
       /\ last.fn = "get_files"
       /\ last.raised = "no"
       /\ setupCalls[1].version = version
       /\ setupCalls[1].data_files = <<[dest |-> Destination, files |-> last.value]>>

C10_Stable ==
  /\ pc \in {"files", "setup"} => version' = version
  /\ pc = "setup" => files' = files /\ last' = last

\* C10: setup(...) is called at most once, after get_version and then
\* get_files('profiles') returned normally, and receives exactly the values
\* they returned, unchanged in between.
C10_SetupGetsReturnedValues == []C10_Inv /\ [][C10_Stable]_vars

C10_Witness ==
  /\ Emitted
  /\ setupCalls[1].version # <<>>
  /\ Len(setupCalls[1].data_files[1].files) = 2

====
